---- MODULE Spec2Model ----
(***************************************************************************)
(* Model of ofstd/include/dcmtk/ofstd/ofexport.h: the preprocessor walks   *)
(* the header directive by directive inside a compilation unit.  The state *)
(* is the macro table of the unit, the directive about to be processed,    *)
(* the number of inclusions of the header so far, and the list of the      *)
(* units already compiled with the annotations each of them ended with.    *)
(***************************************************************************)
EXTENDS Integers, Sequences, FiniteSets

\* ---------------------------------------------------------------- bounds
MaxIncludes == 2     \* inclusions of ofexport.h per compilation unit
MaxUnits == 1        \* finished compilation units kept besides the current

\* ------------------------------------------------------- macro vocabulary
ConfigFlags ==
  {"DCMTK_SHARED", "_WIN32", "HAVE_HIDDEN_VISIBILITY", "DCMTK_STATIC_FOR_SHARED"}

MacroNames ==
  ConfigFlags \cup {"OFEXPORT_H", "DCMTK_DECL_EXPORT", "DCMTK_DECL_IMPORT"}

Undefined == "<undefined>"
Empty == ""
DllExport == "__declspec(dllexport)"
DllImport == "__declspec(dllimport)"
VisibilityDefault == "__attribute__ ((visibility(\"default\")))"

\* position of the preprocessor outside the header (in the including unit)
InUnit == 0

VARIABLES macros, pc, includes, config, diag, resolved

vars == <<macros, pc, includes, config, diag, resolved>>

\* ----------------------------------------------------- preprocessor core
IsDefined(name) == macros[name] # Undefined

\* #define name body: the new body takes effect; redefining a macro with a
\* different body draws a diagnostic
Define(name, body) ==
  /\ macros' = [macros EXCEPT ![name] = body]
  /\ diag' = (diag \/ macros[name] \notin {Undefined, body})

\* macro table at the start of a unit whose command line defines flags
StartTable(flags) ==
  [m \in MacroNames |-> IF m \in flags THEN "1" ELSE Undefined]

DefinedFlags(table) == {f \in ConfigFlags : table[f] # Undefined}

Init ==
  /\ \E flags \in SUBSET ConfigFlags : macros = StartTable(flags)
  /\ pc = InUnit
  /\ includes = 0
  /\ config = {}
  /\ diag = FALSE
  /\ resolved = << >>

\* ------------------------------------------------- the including unit
\* #include "dcmtk/ofstd/ofexport.h"
Include ==
  /\ pc = InUnit
  /\ includes < MaxIncludes
  /\ pc' = 22
  /\ includes' = includes + 1
  /\ UNCHANGED <<macros, config, diag, resolved>>

\* between two inclusions the unit may #define / #undef configuration flags
Redefine ==
  /\ pc = InUnit
  /\ includes >= 1
  /\ includes < MaxIncludes
  /\ \E flags \in SUBSET ConfigFlags :
       /\ flags # DefinedFlags(macros)
       /\ macros' = [m \in MacroNames |->
                       IF m \in ConfigFlags
                       THEN (IF m \in flags THEN "1" ELSE Undefined)
                       ELSE macros[m]]
  /\ UNCHANGED <<pc, includes, config, diag, resolved>>

\* what a unit that has included the header ends with
Outcome ==
  [config |-> config,
   export |-> macros["DCMTK_DECL_EXPORT"],
   import |-> macros["DCMTK_DECL_IMPORT"],
   diag |-> diag]

\* the compiler finishes this unit and starts the next one with a fresh
\* macro table
NextUnit ==
  /\ pc = InUnit
  /\ includes >= 1
  /\ Len(resolved) < MaxUnits
  /\ resolved' = Append(resolved, Outcome)
  /\ \E flags \in SUBSET ConfigFlags : macros' = StartTable(flags)
  /\ pc' = InUnit
  /\ includes' = 0
  /\ config' = {}
  /\ diag' = FALSE

\* ------------------------------------------------ the header, by line
\* variant of line 22 without the include guard taking effect
L22_unguarded ==
  /\ pc = 22
  /\ pc' = 23
  /\ UNCHANGED <<macros, includes, config, diag, resolved>>

\* line 22: #ifndef OFEXPORT_H  (false: skip to the #endif on line 53)
L22 ==
  /\ pc = 22
  /\ pc' = IF IsDefined("OFEXPORT_H") THEN InUnit ELSE 23
  /\ UNCHANGED <<macros, includes, config, diag, resolved>>

\* line 23: #define OFEXPORT_H
L23 ==
  /\ pc = 23
  /\ Define("OFEXPORT_H", Empty)
  /\ pc' = 25
  /\ UNCHANGED <<includes, config, resolved>>

\* line 25: #include "dcmtk/config/osconfig.h"; the OS specific
\* configuration may define further configuration flags
L25 ==
  /\ pc = 25
  /\ \E extra \in SUBSET (ConfigFlags \ DefinedFlags(macros)) :
       /\ macros' = [m \in MacroNames |->
                       IF m \in extra THEN "1" ELSE macros[m]]
       /\ config' = DefinedFlags(macros) \cup extra
  /\ pc' = 28
  /\ UNCHANGED <<includes, diag, resolved>>

\* variant of line 28 that enters the block in static builds too
L28_unconditional ==
  /\ pc = 28
  /\ pc' = 29
  /\ UNCHANGED <<macros, includes, config, diag, resolved>>

\* line 28: #ifdef DCMTK_SHARED  (false: skip to the #endif on line 42)
L28 ==
  /\ pc = 28
  /\ pc' = IF IsDefined("DCMTK_SHARED") THEN 29 ELSE 44
  /\ UNCHANGED <<macros, includes, config, diag, resolved>>

\* variant of line 29 with the hidden-visibility branch tested first
L29_hidden_first ==
  /\ pc = 29
  /\ pc' = IF IsDefined("HAVE_HIDDEN_VISIBILITY") THEN 40
           ELSE IF IsDefined("_WIN32") THEN 31 ELSE 44
  /\ UNCHANGED <<macros, includes, config, diag, resolved>>

\* variant of line 29 with the re-export test enclosing both Windows defines
L29_reexport_first ==
  /\ pc = 29
  /\ pc' = IF IsDefined("_WIN32")
           THEN (IF IsDefined("DCMTK_STATIC_FOR_SHARED") THEN 44 ELSE 31)
           ELSE 36
  /\ UNCHANGED <<macros, includes, config, diag, resolved>>

\* line 29: #ifdef _WIN32  (false: go to the #elif on line 36)
L29 ==
  /\ pc = 29
  /\ pc' = IF IsDefined("_WIN32") THEN 31 ELSE 36
  /\ UNCHANGED <<macros, includes, config, diag, resolved>>

\* variant of line 31 with the import marker in place of the export marker
L31_dllimport ==
  /\ pc = 31
  /\ Define("DCMTK_DECL_EXPORT", DllImport)
  /\ pc' = 33
  /\ UNCHANGED <<includes, config, resolved>>

\* line 31: #define DCMTK_DECL_EXPORT __declspec(dllexport)
L31 ==
  /\ pc = 31
  /\ Define("DCMTK_DECL_EXPORT", DllExport)
  /\ pc' = 33
  /\ UNCHANGED <<includes, config, resolved>>

\* variant of line 33 written as #ifdef
L33_ifdef ==
  /\ pc = 33
  /\ pc' = IF IsDefined("DCMTK_STATIC_FOR_SHARED") THEN 34 ELSE 44
  /\ UNCHANGED <<macros, includes, config, diag, resolved>>

\* variant of line 33 testing the hidden-visibility flag
L33_hidden ==
  /\ pc = 33
  /\ pc' = IF IsDefined("HAVE_HIDDEN_VISIBILITY") THEN 44 ELSE 34
  /\ UNCHANGED <<macros, includes, config, diag, resolved>>

\* line 33: #ifndef DCMTK_STATIC_FOR_SHARED  (false: skip to the #endif on
\* line 35; the #elif group of line 36 is then skipped as well)
L33 ==
  /\ pc = 33
  /\ pc' = IF IsDefined("DCMTK_STATIC_FOR_SHARED") THEN 44 ELSE 34
  /\ UNCHANGED <<macros, includes, config, diag, resolved>>

\* line 34: #define DCMTK_DECL_IMPORT __declspec(dllimport)
L34 ==
  /\ pc = 34
  /\ Define("DCMTK_DECL_IMPORT", DllImport)
  /\ pc' = 44
  /\ UNCHANGED <<includes, config, resolved>>

\* variant of line 36 with the test negated
L36_negated ==
  /\ pc = 36
  /\ pc' = IF IsDefined("HAVE_HIDDEN_VISIBILITY") THEN 44 ELSE 40
  /\ UNCHANGED <<macros, includes, config, diag, resolved>>

\* line 36: #elif defined(HAVE_HIDDEN_VISIBILITY)
L36 ==
  /\ pc = 36
  /\ pc' = IF IsDefined("HAVE_HIDDEN_VISIBILITY") THEN 40 ELSE 44
  /\ UNCHANGED <<macros, includes, config, diag, resolved>>

\* variant of line 40 defining the import annotation
L40_import ==
  /\ pc = 40
  /\ Define("DCMTK_DECL_IMPORT", VisibilityDefault)
  /\ pc' = 44
  /\ UNCHANGED <<includes, config, resolved>>

\* line 40: #define DCMTK_DECL_EXPORT __attribute__ ((visibility("default")))
L40 ==
  /\ pc = 40
  /\ Define("DCMTK_DECL_EXPORT", VisibilityDefault)
  /\ pc' = 44
  /\ UNCHANGED <<includes, config, resolved>>

\* line 44: #ifndef DCMTK_DECL_EXPORT
L44 ==
  /\ pc = 44
  /\ pc' = IF IsDefined("DCMTK_DECL_EXPORT") THEN 48 ELSE 45
  /\ UNCHANGED <<macros, includes, config, diag, resolved>>

\* line 45: #define DCMTK_DECL_EXPORT
L45 ==
  /\ pc = 45
  /\ Define("DCMTK_DECL_EXPORT", Empty)
  /\ pc' = 48
  /\ UNCHANGED <<includes, config, resolved>>

\* variant of line 48 without the fallback
L48_skip ==
  /\ pc = 48
  /\ pc' = InUnit
  /\ UNCHANGED <<macros, includes, config, diag, resolved>>

\* line 48: #ifndef DCMTK_DECL_IMPORT  (false: skip to the end of the file)
L48 ==
  /\ pc = 48
  /\ pc' = IF IsDefined("DCMTK_DECL_IMPORT") THEN InUnit ELSE 49
  /\ UNCHANGED <<macros, includes, config, diag, resolved>>

\* line 49: #define DCMTK_DECL_IMPORT, then the end of the file
L49 ==
  /\ pc = 49
  /\ Define("DCMTK_DECL_IMPORT", Empty)
  /\ pc' = InUnit
  /\ UNCHANGED <<includes, config, resolved>>

\* one directive of the header
Resolve ==
  \/ L22 \/ L23 \/ L25 \/ L28 \/ L29 \/ L31 \/ L33 \/ L34
  \/ L36 \/ L40 \/ L44 \/ L45 \/ L48 \/ L49

Next ==
  \/ Include
  \/ Redefine
  \/ NextUnit
  \/ L22 \/ L23 \/ L25 \/ L28 \/ L29 \/ L31 \/ L33 \/ L34
  \/ L36 \/ L40 \/ L44 \/ L45 \/ L48 \/ L49

Spec == Init /\ [][Next]_vars

\* the preprocessor does not stall inside a file it is reading
FairSpec == Init /\ [][Next]_vars /\ WF_vars(Resolve)

TypeOK ==
  /\ macros \in [MacroNames ->
       {Undefined, Empty, "1", DllExport, DllImport, VisibilityDefault}]
  /\ pc \in {InUnit, 22, 23, 25, 28, 29, 31, 33, 34, 36, 40, 44, 45, 48, 49}
  /\ includes \in 0..MaxIncludes
  /\ config \subseteq ConfigFlags
  /\ diag \in BOOLEAN
  /\ Len(resolved) <= MaxUnits

\* ------------------------------------------------- vocabulary of the claims
BuildModes == {"StaticLink", "SharedBuild-Exporting", "SharedBuild-Importing"}

TargetPlatforms ==
  {"WindowsLike", "PosixWithHiddenVisibilitySupport",
   "PosixWithoutHiddenVisibilitySupport"}

AnnotationOutcomes == {"Export", "Import", "None"}

\* the build modes a configuration stands for: the header tells a shared
\* from a static build (line 28) and yields the export and the import
\* annotation together, for the exporting and the importing side alike
BuildModesOf(cfg) ==
  IF "DCMTK_SHARED" \in cfg
  THEN {"SharedBuild-Exporting", "SharedBuild-Importing"}
  ELSE {"StaticLink"}

\* the platform a configuration stands for (lines 29 and 36)
TargetPlatform(cfg) ==
  IF "_WIN32" \in cfg THEN "WindowsLike"
  ELSE IF "HAVE_HIDDEN_VISIBILITY" \in cfg
       THEN "PosixWithHiddenVisibilitySupport"
       ELSE "PosixWithoutHiddenVisibilitySupport"

\* the outcome a replacement text stands for
AnnotationOutcome(body) ==
  IF body \in {DllExport, VisibilityDefault} THEN "Export"
  ELSE IF body = DllImport THEN "Import"
  ELSE IF body = Empty THEN "None"
  ELSE "Undefined"

\* the current unit is past an inclusion of the header
Done == pc = InUnit /\ includes >= 1

\* every resolution in the state: the finished units and, once it is past
\* the header, the current one
Resolutions ==
  {resolved[i] : i \in 1..Len(resolved)} \cup (IF Done THEN {Outcome} ELSE {})

\* ------------------------------------------------------------------ C1
\* C1: in a static build (DCMTK_SHARED not defined) both annotations are
\* empty, whatever _WIN32, HAVE_HIDDEN_VISIBILITY and
\* DCMTK_STATIC_FOR_SHARED are.
C1_StaticBothNone ==
  \A r \in Resolutions :
    "DCMTK_SHARED" \notin r.config =>
      r.export = Empty /\ r.import = Empty

C1_Witness ==
  /\ Done
  /\ config = {"_WIN32", "HAVE_HIDDEN_VISIBILITY", "DCMTK_STATIC_FOR_SHARED"}
  /\ macros["DCMTK_DECL_EXPORT"] = Empty

\* ------------------------------------------------------------------ C2
\* C2: in a shared Windows build the import annotation is the DLL-import
\* marker when DCMTK_STATIC_FOR_SHARED is not defined and empty when it is.
C2_WindowsImport ==
  \A r \in Resolutions :
    ("DCMTK_SHARED" \in r.config /\ "_WIN32" \in r.config) =>
      r.import = (IF "DCMTK_STATIC_FOR_SHARED" \in r.config
                  THEN Empty ELSE DllImport)

C2_Witness ==
  /\ Done
  /\ Len(resolved) = 1
  /\ resolved[1].config = {"DCMTK_SHARED", "_WIN32"}
  /\ resolved[1].import = DllImport
  /\ config = {"DCMTK_SHARED", "_WIN32", "DCMTK_STATIC_FOR_SHARED"}

\* ------------------------------------------------------------------ C3
\* C3: in a shared Windows build the export annotation is the DLL-export
\* marker.
C3_WindowsExport ==
  \A r \in Resolutions :
    ("DCMTK_SHARED" \in r.config /\ "_WIN32" \in r.config) =>
      r.export = DllExport

C3_Witness ==
  /\ Done
  /\ config = {"DCMTK_SHARED", "_WIN32"}
  /\ macros["DCMTK_DECL_EXPORT"] = DllExport

\* ------------------------------------------------------------------ C4
\* C4: in a shared build off Windows the export annotation is the
\* default-visibility marker when HAVE_HIDDEN_VISIBILITY is defined and
\* empty when it is not.
C4_PosixExport ==
  \A r \in Resolutions :
    ("DCMTK_SHARED" \in r.config /\ "_WIN32" \notin r.config) =>
      r.export = (IF "HAVE_HIDDEN_VISIBILITY" \in r.config
                  THEN VisibilityDefault ELSE Empty)

C4_Witness ==
  /\ Done
  /\ Len(resolved) = 1
  /\ resolved[1].config = {"DCMTK_SHARED", "HAVE_HIDDEN_VISIBILITY"}
  /\ resolved[1].export = VisibilityDefault
  /\ config = {"DCMTK_SHARED"}

\* ------------------------------------------------------------------ C5
\* C5: where _WIN32 is not defined the import annotation is empty, in
\* every build mode and whatever the other flags are.
C5_PosixImportNone ==
  \A r \in Resolutions :
    "_WIN32" \notin r.config => r.import = Empty

C5_Witness ==
  /\ Done
  /\ config =
       {"DCMTK_SHARED", "HAVE_HIDDEN_VISIBILITY", "DCMTK_STATIC_FOR_SHARED"}
  /\ macros["DCMTK_DECL_IMPORT"] = Empty

\* ------------------------------------------------------------------ C6
C6_Defined ==
  \A bm \in BuildModes, tp \in TargetPlatforms :
    \A r \in Resolutions :
      (bm \in BuildModesOf(r.config) /\ tp = TargetPlatform(r.config)) =>
        /\ ~r.diag
        /\ AnnotationOutcome(r.export) \in AnnotationOutcomes
        /\ AnnotationOutcome(r.import) \in AnnotationOutcomes
        /\ (r.config = {} =>
              /\ AnnotationOutcome(r.export) = "None"
              /\ AnnotationOutcome(r.import) = "None")

\* C6: resolution is total: every inclusion of the header runs to its end,
\* and for all nine (BuildMode, TargetPlatform) combinations and every
\* setting of the flags it ends without a diagnostic with each annotation
\* defined as one of Export, Import, None; with no flag set both are None.
C6_Total ==
  /\ []C6_Defined
  /\ ((pc = 22) ~> (pc = InUnit))

C6_Witness ==
  /\ Done
  /\ config = {}
  /\ Len(resolved) = 1
  /\ resolved[1].config = {"_WIN32", "HAVE_HIDDEN_VISIBILITY"}
  /\ AnnotationOutcome(macros["DCMTK_DECL_IMPORT"]) = "None"

\* ------------------------------------------------------------------ C7
SameOutcomes(r1, r2) ==
  /\ AnnotationOutcome(r1.export) = AnnotationOutcome(r2.export)
  /\ AnnotationOutcome(r1.import) = AnnotationOutcome(r2.import)

SamePair(r1, r2) ==
  /\ BuildModesOf(r1.config) = BuildModesOf(r2.config)
  /\ TargetPlatform(r1.config) = TargetPlatform(r2.config)

\* C7 as stated: two resolutions that agree on BuildMode and TargetPlatform
\* select the same outcome for each annotation.
C7_Original ==
  \A r1, r2 \in Resolutions :
    SamePair(r1, r2) => SameOutcomes(r1, r2)

\* C7: two resolutions that agree on BuildMode, on TargetPlatform and on
\* the re-export flag DCMTK_STATIC_FOR_SHARED select the same outcome for
\* each annotation.
C7_Amended ==
  \A r1, r2 \in Resolutions :
    ( /\ SamePair(r1, r2)
      /\ ("DCMTK_STATIC_FOR_SHARED" \in r1.config
            <=> "DCMTK_STATIC_FOR_SHARED" \in r2.config) )
    => SameOutcomes(r1, r2)

C7_Witness ==
  /\ Done
  /\ Len(resolved) = 1
  /\ resolved[1].config = {"DCMTK_SHARED", "_WIN32"}
  /\ config = {"DCMTK_SHARED", "_WIN32", "HAVE_HIDDEN_VISIBILITY"}
  /\ SameOutcomes(resolved[1], Outcome)

\* ------------------------------------------------------------------ C8
C8_SameInputsSameAnnotations ==
  \A r1, r2 \in Resolutions :
    r1.config = r2.config =>
      r1.export = r2.export /\ r1.import = r2.import

\* a step taken inside a repeated inclusion of the header
C8_RepeatedInclusionKeeps ==
  (includes >= 2 /\ pc # InUnit) =>
    /\ macros'["DCMTK_DECL_EXPORT"] = macros["DCMTK_DECL_EXPORT"]
    /\ macros'["DCMTK_DECL_IMPORT"] = macros["DCMTK_DECL_IMPORT"]

\* C8: resolving again with identical flag settings yields the identical
\* pair of annotations, and a repeated inclusion of the header in the same
\* unit leaves both annotations unchanged.
C8_Idempotent ==
  /\ []C8_SameInputsSameAnnotations
  /\ [][C8_RepeatedInclusionKeeps]_vars

C8_Witness ==
  /\ pc = InUnit
  /\ includes = 2
  /\ config = {"DCMTK_SHARED", "_WIN32"}
  /\ DefinedFlags(macros) = {}
  /\ Len(resolved) = 1
  /\ resolved[1].config = config
  /\ resolved[1].import = DllImport

\* ------------------------------------------------------------------ C9
\* C9: the Windows branch takes precedence: with DCMTK_SHARED, _WIN32 and
\* HAVE_HIDDEN_VISIBILITY all defined the export annotation is the
\* DLL-export marker, and the default-visibility marker appears only with
\* DCMTK_SHARED defined, _WIN32 not defined and HAVE_HIDDEN_VISIBILITY
\* defined.
C9_WindowsPrecedence ==
  \A r \in Resolutions :
    /\ {"DCMTK_SHARED", "_WIN32", "HAVE_HIDDEN_VISIBILITY"} \subseteq r.config
         => r.export = DllExport
    /\ (r.export = VisibilityDefault \/ r.import = VisibilityDefault)
         => /\ "DCMTK_SHARED" \in r.config
            /\ "_WIN32" \notin r.config
            /\ "HAVE_HIDDEN_VISIBILITY" \in r.config

C9_Witness ==
  /\ Done
  /\ config = {"DCMTK_SHARED", "_WIN32", "HAVE_HIDDEN_VISIBILITY"}
  /\ macros["DCMTK_DECL_EXPORT"] = DllExport
  /\ Len(resolved) = 1
  /\ resolved[1].export = VisibilityDefault

\* ------------------------------------------------------------------ C10
\* C10: toggling DCMTK_STATIC_FOR_SHARED never changes the export
\* annotation, and never changes the import annotation when DCMTK_SHARED
\* or _WIN32 is not defined.
C10_ReexportFrame ==
  \A r1, r2 \in Resolutions :
    (r1.config \ {"DCMTK_STATIC_FOR_SHARED"}
       = r2.config \ {"DCMTK_STATIC_FOR_SHARED"}) =>
      /\ r1.export = r2.export
      /\ ("DCMTK_SHARED" \notin r1.config \/ "_WIN32" \notin r1.config)
           => r1.import = r2.import

C10_Witness ==
  /\ Done
  /\ Len(resolved) = 1
  /\ resolved[1].config = {"DCMTK_SHARED", "_WIN32", "DCMTK_STATIC_FOR_SHARED"}
  /\ config = {"DCMTK_SHARED", "_WIN32"}
  /\ resolved[1].export = macros["DCMTK_DECL_EXPORT"]
  /\ resolved[1].import # macros["DCMTK_DECL_IMPORT"]
====
